---- MODULE Spec2Model ----
(***************************************************************************)
(* Model of kale/embed/video_feature_extractor.py: the two selectors       *)
(* get_extractor_video (image input) and get_extractor_feat (feature       *)
(* input).  Both are sequential functions without persistent state; they   *)
(* are modelled as operators over a frame record that is threaded through  *)
(* the statements of the function in source order.  The state of the       *)
(* specification is one invocation: its arguments and what came out of it. *)
(***************************************************************************)
EXTENDS Integers, Sequences, FiniteSets, TLC

VARIABLES call, ret

vars == <<call, ret>>

---------------------------------------------------------------------------
(* Python values.  Every value is a record of one shape, so that values of *)
(* different Python types can be compared.  Numbers are kept in halves     *)
(* (v2 = 2 * value): that is enough to tell 1024 (int) from 2048 / 2       *)
(* (float 1024.0) and to evaluate int() as a truncation.                   *)

NoDict == [verb |-> 0, noun |-> 0]

PyStr(s) == [ty |-> "str", s |-> s, v2 |-> 0, d |-> NoDict]

PyNone == [ty |-> "NoneType", s |-> "", v2 |-> 0, d |-> NoDict]

PyInt(n) == [ty |-> "int", s |-> "", v2 |-> 2 * n, d |-> NoDict]

PyBool(b) == [ty |-> "bool", s |-> "", v2 |-> IF b THEN 2 ELSE 0, d |-> NoDict]

PyDict(dict) == [ty |-> "dict", s |-> "", v2 |-> 0, d |-> dict]

\* A torch module; s is the tag of the constructor and stream it came from.
Module(tag) == [ty |-> "Module", s |-> tag, v2 |-> 0, d |-> NoDict]

\* A local name that has not been assigned, a dict key that is not present.
Unbound == [ty |-> "<unbound>", s |-> "", v2 |-> 0, d |-> NoDict]

Absent == [ty |-> "<absent>", s |-> "", v2 |-> 0, d |-> NoDict]

\* x + y on ints (line 61: class_feature_dim += domain_feature_dim).
Add(x, y) == [ty |-> IF "float" \in {x.ty, y.ty} THEN "float" ELSE "int",
              s |-> "", v2 |-> x.v2 + y.v2, d |-> NoDict]

\* x * k for an int literal k.
Mul(x, k) == [ty |-> IF x.ty = "float" THEN "float" ELSE "int",
              s |-> "", v2 |-> x.v2 * k, d |-> NoDict]

\* x / 2: Python 3 true division, always a float.
TrueDiv2(x) == [ty |-> "float", s |-> "", v2 |-> x.v2 \div 2, d |-> NoDict]

\* Fault: the coercion of the return statement left out.
int_missing(x) == x

\* int(x): truncation (all numbers of the model are non-negative).
int(x) == [ty |-> "int", s |-> "", v2 |-> 2 * (x.v2 \div 2), d |-> NoDict]

\* x in l, for a Python list l.
InList(x, l) == \E i \in 1..Len(l) : l[i] = x

\* sub in s, for Python strings: s has sub as a contiguous substring.
Contains(sub, s) ==
    \E i \in 1..(Len(s) - Len(sub) + 1) : SubSeq(s, i, i + Len(sub) - 1) = sub

---------------------------------------------------------------------------
(* The collaborators outside this file.  A backbone constructor returns a  *)
(* mapping keyed by stream name: a module for an active stream, None for   *)
(* an inactive one.  What a constructor of the I3D / Res3D families puts   *)
(* under "audio" (nothing, None, or something else) is the environment's   *)
(* choice, audioEntry.                                                     *)

Backbone(name, rgbOn, flowOn, audioEntry) ==
    [bound |-> TRUE,
     rgb   |-> IF rgbOn THEN Module(name \o ".rgb") ELSE PyNone,
     flow  |-> IF flowOn THEN Module(name \o ".flow") ELSE PyNone,
     audio |-> audioEntry]

i3d_joint(rgb_pt, flow_pt, env) ==
    Backbone("i3d_joint", rgb_pt # PyNone, flow_pt # PyNone, env)

se_i3d_joint(rgb_pt, flow_pt, attention, env) ==
    Backbone("se_i3d_joint[" \o attention.s \o "]", rgb_pt # PyNone, flow_pt # PyNone, env)

r3d(rgb, flow, env) == Backbone("r3d", rgb, flow, env)

se_r3d(rgb, flow, attention, env) ==
    Backbone("se_r3d[" \o attention.s \o "]", rgb, flow, env)

r2plus1d(rgb, flow, env) == Backbone("r2plus1d", rgb, flow, env)

se_r2plus1d(rgb, flow, attention, env) ==
    Backbone("se_r2plus1d[" \o attention.s \o "]", rgb, flow, env)

mc3(rgb, flow, env) == Backbone("mc3", rgb, flow, env)

se_mc3(rgb, flow, attention, env) ==
    Backbone("se_mc3[" \o attention.s \o "]", rgb, flow, env)

\* ta3n_joint takes three stream arguments (pretrained identifiers or None
\* for image input, booleans for feature input); a stream is built when its
\* argument is truthy.
Truthy(x) == x.ty \notin {"NoneType", "<unbound>", "<absent>"} /\ ~(x.ty = "bool" /\ x.v2 = 0)

ta3n_joint(rgb, flow, audio) ==
    Backbone("ta3n_joint", Truthy(rgb), Truthy(flow),
             IF Truthy(audio) THEN Module("ta3n_joint.audio") ELSE PyNone)

---------------------------------------------------------------------------
(* The frame of one invocation: the locals the function assigns, the       *)
(* constructor calls and log lines it has made so far, and how it ended.   *)

KeywordNames ==
    {"rgb_pt", "flow_pt", "num_classes", "pretrained", "attention", "rgb", "flow",
     "input_size", "input_type", "dict_n_class", "frame_aggregation", "segments"}

\* One constructor invocation: positional arguments, keyword arguments and
\* the mapping the constructor returned.
CallRec(fn, args, kwargs, out) ==
    [fn |-> fn, args |-> args,
     kwargs |-> [k \in KeywordNames |-> IF k \in DOMAIN kwargs THEN kwargs[k] ELSE Absent],
     out |-> out]

NoNetwork == [bound |-> FALSE, rgb |-> Unbound, flow |-> Unbound, audio |-> Unbound]

NoException == [type |-> "", msg |-> ""]

NoResult ==
    [feature_network |-> NoNetwork, class_feature_dim |-> Unbound,
     domain_feature_dim |-> Unbound]

\* The frame on entry: nothing assigned, nothing called.
NewFrame ==
    [status |-> "running", exc |-> NoException, result |-> NoResult,
     att |-> Unbound, num_classes |-> Unbound,
     feature_network |-> NoNetwork,
     class_feature_dim |-> Unbound, domain_feature_dim |-> Unbound,
     calls |-> <<>>, logs |-> <<>>]

\* raise type(msg): the frame is abandoned, nothing is returned.
Raise(f, type, msg) ==
    [f EXCEPT !.status = "raised", !.exc = [type |-> type, msg |-> msg]]

\* feature_network = fn(*args, **kwargs)
Construct(f, fn, args, kwargs, net) ==
    [f EXCEPT !.calls = Append(@, CallRec(fn, args, kwargs, net)), !.feature_network = net]

\* logging.info(msg)
LogInfo(f, msg) == [f EXCEPT !.logs = Append(@, msg)]

---------------------------------------------------------------------------
(* get_extractor_video(model_name, image_modality, attention,              *)
(* dict_num_classes).  An invocation a carries the arguments; a.modality   *)
(* is what get_image_modality(image_modality) returned (rgb, flow, audio), *)
(* and a.ctor_audio is the environment's choice described above.           *)

attention_list ==
    <<"SELayerC", "SELayerT", "SELayerCoC", "SELayerMC", "SELayerCT", "SELayerTC",
      "SELayerMAC">>

model_list == <<"I3D", "R3D_18", "MC3_18", "R2PLUS1D_18">>

\* Lines 38-40: decode the modality, read the verb class count.
video_enter(a) == [NewFrame EXCEPT !.num_classes = PyInt(a.dict_num_classes["verb"])]

\* Lines 45-50: att is True for a listed attention, False for "None";
\* anything else raises.
check_attention(f, a) ==
    IF f.status # "running" THEN f
    ELSE IF InList(a.attention, attention_list) THEN [f EXCEPT !.att = PyBool(TRUE)]
    ELSE IF a.attention = "None" THEN [f EXCEPT !.att = PyBool(FALSE)]
    ELSE Raise(f, "ValueError", "Wrong MODEL.ATTENTION. Current: " \o a.attention)

\* Lines 52-53: a model name outside model_list raises.
check_model_name(f, a) ==
    IF f.status # "running" THEN f
    ELSE IF ~InList(a.model_name, model_list)
         THEN Raise(f, "ValueError", "Wrong MODEL.METHOD. Current:" \o a.model_name)
         ELSE f

\* Line 70 / line 135: return feature_network, int(class_feature_dim),
\* int(domain_feature_dim).  Reading a local that was never assigned raises.
video_return(f) ==
    IF f.status # "running" THEN f
    ELSE IF ~f.feature_network.bound \/ f.class_feature_dim = Unbound
            \/ f.domain_feature_dim = Unbound
         THEN Raise(f, "UnboundLocalError", "referenced before assignment")
         ELSE [f EXCEPT !.status = "returned",
                        !.result = [feature_network    |-> f.feature_network,
                                    class_feature_dim  |-> int(f.class_feature_dim),
                                    domain_feature_dim |-> int(f.domain_feature_dim)]]

\* Lines 55-70: the temporal-aggregation family, with its early return.
ta3n_image(f, a) ==
    IF f.status # "running" \/ ~Contains("TA3N", a.model_name) THEN f
    ELSE LET rgb_pretrained   == IF a.modality.rgb THEN PyStr("rgb_ta3n") ELSE PyNone
             flow_pretrained  == IF a.modality.flow THEN PyStr("flow_ta3n") ELSE PyNone
             audio_pretrained == IF a.modality.audio THEN PyStr("audio_ta3n") ELSE PyNone
             domain_feature_dim == PyInt(1024)
             c0 == PyInt(0)
             c1 == IF a.modality.rgb THEN Add(c0, domain_feature_dim) ELSE c0
             c2 == IF a.modality.flow THEN Add(c1, domain_feature_dim) ELSE c1
             c3 == IF a.modality.audio THEN Add(c2, domain_feature_dim) ELSE c2
             f1 == [f EXCEPT !.class_feature_dim = c3,
                             !.domain_feature_dim = domain_feature_dim]
             f2 == Construct(f1, "ta3n_joint",
                             <<rgb_pretrained, flow_pretrained, audio_pretrained>>,
                             [input_size |-> PyInt(1024), input_type |-> PyStr("image"),
                              dict_n_class |-> f.num_classes],
                             ta3n_joint(rgb_pretrained, flow_pretrained, audio_pretrained))
         IN  video_return(f2)

\* Lines 74-78: the pretrained identifier of each active I3D stream.
i3d_pretrained(rgb, flow) ==
    [rgb  |-> IF rgb THEN PyStr("rgb_imagenet") ELSE PyNone,
     flow |-> IF flow THEN PyStr("flow_imagenet") ELSE PyNone]

\* Fault: the domain dimension not halved for joint input.
i3d_dims_not_halved(rgb, flow) ==
    IF rgb /\ flow
    THEN [class_feature_dim |-> PyInt(2048), domain_feature_dim |-> PyInt(2048)]
    ELSE [class_feature_dim |-> PyInt(1024), domain_feature_dim |-> PyInt(1024)]

\* Lines 80-85: the I3D dimensions, before the int() of the return.
i3d_dims(rgb, flow) ==
    IF rgb /\ flow
    THEN [class_feature_dim |-> PyInt(2048), domain_feature_dim |-> TrueDiv2(PyInt(2048))]
    ELSE [class_feature_dim |-> PyInt(1024), domain_feature_dim |-> PyInt(1024)]

\* Fault: the test on att inverted ("if att:" for "if not att:").
i3d_build_inverted(f, a) ==
    LET pt == i3d_pretrained(a.modality.rgb, a.modality.flow)
    IN  IF f.att # PyBool(FALSE)
        THEN Construct(LogInfo(f, a.model_name \o " without SELayer."),
                       "i3d_joint", <<>>,
                       [rgb_pt |-> pt.rgb, flow_pt |-> pt.flow,
                        num_classes |-> f.num_classes, pretrained |-> PyBool(TRUE)],
                       i3d_joint(pt.rgb, pt.flow, a.ctor_audio))
        ELSE Construct(LogInfo(f, a.model_name \o " with " \o a.attention \o "."),
                       "se_i3d_joint", <<>>,
                       [rgb_pt |-> pt.rgb, flow_pt |-> pt.flow,
                        attention |-> PyStr(a.attention),
                        num_classes |-> f.num_classes, pretrained |-> PyBool(TRUE)],
                       se_i3d_joint(pt.rgb, pt.flow, PyStr(a.attention), a.ctor_audio))

\* Lines 87-100: i3d_joint without attention, se_i3d_joint with it.
i3d_build(f, a) ==
    LET pt == i3d_pretrained(a.modality.rgb, a.modality.flow)
    IN  IF f.att = PyBool(FALSE)
        THEN Construct(LogInfo(f, a.model_name \o " without SELayer."),
                       "i3d_joint", <<>>,
                       [rgb_pt |-> pt.rgb, flow_pt |-> pt.flow,
                        num_classes |-> f.num_classes, pretrained |-> PyBool(TRUE)],
                       i3d_joint(pt.rgb, pt.flow, a.ctor_audio))
        ELSE Construct(LogInfo(f, a.model_name \o " with " \o a.attention \o "."),
                       "se_i3d_joint", <<>>,
                       [rgb_pt |-> pt.rgb, flow_pt |-> pt.flow,
                        attention |-> PyStr(a.attention),
                        num_classes |-> f.num_classes, pretrained |-> PyBool(TRUE)],
                       se_i3d_joint(pt.rgb, pt.flow, PyStr(a.attention), a.ctor_audio))

\* Lines 104-109: the Res3D dimensions, before the int() of the return.
res3d_dims(rgb, flow) ==
    IF rgb /\ flow
    THEN [class_feature_dim |-> PyInt(1024), domain_feature_dim |-> TrueDiv2(PyInt(1024))]
    ELSE [class_feature_dim |-> PyInt(512), domain_feature_dim |-> PyInt(512)]

\* Lines 111-133: the constructor chosen by exact model name and by att.
res3d_build(f, a) ==
    LET rgb == a.modality.rgb
        flow == a.modality.flow
        plain == LogInfo(f, a.model_name \o " without SELayer.")
        se == LogInfo(f, a.model_name \o " with " \o a.attention \o ".")
        kw == [rgb |-> PyBool(rgb), flow |-> PyBool(flow), pretrained |-> PyBool(TRUE)]
        sekw == [rgb |-> PyBool(rgb), flow |-> PyBool(flow), pretrained |-> PyBool(TRUE),
                 attention |-> PyStr(a.attention)]
    IN  IF a.model_name = "R3D_18"
        THEN IF f.att = PyBool(FALSE)
             THEN Construct(plain, "r3d", <<>>, kw, r3d(rgb, flow, a.ctor_audio))
             ELSE Construct(se, "se_r3d", <<>>, sekw,
                            se_r3d(rgb, flow, PyStr(a.attention), a.ctor_audio))
        ELSE IF a.model_name = "R2PLUS1D_18"
        THEN IF f.att = PyBool(FALSE)
             THEN Construct(plain, "r2plus1d", <<>>, kw, r2plus1d(rgb, flow, a.ctor_audio))
             ELSE Construct(se, "se_r2plus1d", <<>>, sekw,
                            se_r2plus1d(rgb, flow, PyStr(a.attention), a.ctor_audio))
        ELSE IF a.model_name = "MC3_18"
        THEN IF f.att = PyBool(FALSE)
             THEN Construct(plain, "mc3", <<>>, kw, mc3(rgb, flow, a.ctor_audio))
             ELSE Construct(se, "se_mc3", <<>>, sekw,
                            se_mc3(rgb, flow, PyStr(a.attention), a.ctor_audio))
        ELSE f

\* Lines 73-133: the if / elif over the model name; a name in neither arm
\* assigns nothing.
backbone_branch(f, a) ==
    IF f.status # "running" THEN f
    ELSE IF a.model_name = "I3D"
    THEN LET dims == i3d_dims(a.modality.rgb, a.modality.flow)
         IN  i3d_build([f EXCEPT !.class_feature_dim = dims.class_feature_dim,
                                 !.domain_feature_dim = dims.domain_feature_dim], a)
    ELSE IF InList(a.model_name, <<"R3D_18", "R2PLUS1D_18", "MC3_18">>)
    THEN LET dims == res3d_dims(a.modality.rgb, a.modality.flow)
         IN  res3d_build([f EXCEPT !.class_feature_dim = dims.class_feature_dim,
                                   !.domain_feature_dim = dims.domain_feature_dim], a)
    ELSE f

\* Fault: the update of line 134 left out.
attach_audio_missing(f) == f

\* Line 134: feature_network.update({"audio": None}).
attach_audio(f) ==
    IF f.status # "running" THEN f
    ELSE IF ~f.feature_network.bound
         THEN Raise(f, "UnboundLocalError", "referenced before assignment")
         ELSE [f EXCEPT !.feature_network.audio = PyNone]

\* Fault: the model name validated before the attention.
get_extractor_video_name_first(a) ==
    video_return(
      attach_audio(
        backbone_branch(
          ta3n_image(
            check_attention(
              check_model_name(video_enter(a), a), a), a), a)))

\* Fault: att computed on entry, the attention validated only after the
\* backbone has been constructed.
get_extractor_video_late_check(a) ==
    LET f0 == video_enter(a)
        f1 == [f0 EXCEPT !.att = PyBool(InList(a.attention, attention_list))]
    IN  video_return(
          attach_audio(
            check_attention(
              backbone_branch(
                ta3n_image(
                  check_model_name(f1, a), a), a), a)))

\* The whole function, statement by statement.
get_extractor_video(a) ==
    video_return(
      attach_audio(
        backbone_branch(
          ta3n_image(
            check_model_name(
              check_attention(video_enter(a), a), a), a), a)))

---------------------------------------------------------------------------
(* get_extractor_feat(model_name, image_modality, dict_num_classes,        *)
(* frame_aggregation, segments, input_size, output_size).                  *)

\* Lines 143-147: only the name "TA3N" constructs a network.
feat_build(f, a) ==
    IF f.status # "running" THEN f
    ELSE IF a.model_name = "TA3N"
         THEN Construct(LogInfo(f, a.model_name), "ta3n_joint",
                        <<PyBool(a.modality.rgb), PyBool(a.modality.flow),
                          PyBool(a.modality.audio), a.input_size, a.output_size>>,
                        [input_type |-> PyStr("feature"),
                         frame_aggregation |-> PyStr(a.frame_aggregation),
                         segments |-> PyInt(a.segments),
                         dict_n_class |-> PyDict(a.dict_num_classes)],
                        ta3n_joint(PyBool(a.modality.rgb), PyBool(a.modality.flow),
                                   PyBool(a.modality.audio)))
         ELSE f

\* Lines 150-168: the class dimension weighted by the active streams.
feat_weighted_dim(rgb, flow, audio, domain_feature_dim) ==
    IF rgb
    THEN IF flow
         THEN IF audio THEN int(Mul(domain_feature_dim, 3))
                       ELSE int(Mul(domain_feature_dim, 2))
         ELSE IF audio THEN int(Mul(domain_feature_dim, 2))
                       ELSE domain_feature_dim
    ELSE IF flow
         THEN IF audio THEN int(Mul(domain_feature_dim, 2))
                       ELSE domain_feature_dim
         ELSE domain_feature_dim

\* Fault: line 169 left out, the weighted class dimension survives.
feat_overwrite_missing(f) ==
    IF f.status # "running" THEN f
    ELSE [f EXCEPT !.domain_feature_dim = int(f.domain_feature_dim)]

\* Lines 169-170: both dimensions are assigned int(domain_feature_dim).
feat_overwrite(f) ==
    IF f.status # "running" THEN f
    ELSE [f EXCEPT !.class_feature_dim = int(f.domain_feature_dim),
                   !.domain_feature_dim = int(f.domain_feature_dim)]

\* Lines 149-170.
feat_dims(f, a) ==
    IF f.status # "running" THEN f
    ELSE LET domain_feature_dim == int(a.output_size)
             weighted == feat_weighted_dim(a.modality.rgb, a.modality.flow,
                                           a.modality.audio, domain_feature_dim)
         IN  feat_overwrite([f EXCEPT !.domain_feature_dim = domain_feature_dim,
                                      !.class_feature_dim = weighted])

\* Line 172: return feature_network, class_feature_dim, domain_feature_dim.
\* feature_network is unassigned unless line 145 ran.
feat_return(f) ==
    IF f.status # "running" THEN f
    ELSE IF ~f.feature_network.bound
         THEN Raise(f, "UnboundLocalError", "referenced before assignment")
         ELSE [f EXCEPT !.status = "returned",
                        !.result = [feature_network    |-> f.feature_network,
                                    class_feature_dim  |-> f.class_feature_dim,
                                    domain_feature_dim |-> f.domain_feature_dim]]

get_extractor_feat(a) == feat_return(feat_dims(feat_build(NewFrame, a), a))

---------------------------------------------------------------------------
(* The invocations explored.                                               *)

MaxClasses == 2

MaxSegments == 2

MaxOutputSize == 3

ModelNames ==
    {"I3D", "R3D_18", "MC3_18", "R2PLUS1D_18", "TA3N", "TA3N_EPIC", "NotAModel", "i3d"}

Attentions ==
    {"None", "SELayerC", "SELayerT", "SELayerCoC", "SELayerMC", "SELayerCT", "SELayerTC",
     "SELayerMAC", "InvalidName", "SELayer"}

Modalities == [rgb : BOOLEAN, flow : BOOLEAN, audio : BOOLEAN]

\* Class-count tables of a dataset: every one has the "verb" entry line 40 reads.
ClassTables == [verb : 1..MaxClasses, noun : 1..MaxClasses]

CtorAudio == {Absent, PyNone, Module("unexpected.audio")}

FrameAggregations == {"avgpool", "trn-m", "NotAnAggregation"}

\* Widths are integers; 256 is the default of the signature.
OutputSizes == {PyInt(n) : n \in (1..MaxOutputSize) \cup {256}}

VideoCalls ==
    [fn : {"get_extractor_video"}, model_name : ModelNames, modality : Modalities,
     attention : Attentions, dict_num_classes : ClassTables, ctor_audio : CtorAudio]

FeatCalls ==
    [fn : {"get_extractor_feat"}, model_name : ModelNames, modality : Modalities,
     dict_num_classes : ClassTables, frame_aggregation : FrameAggregations,
     segments : 1..MaxSegments, input_size : {PyInt(1024)}, output_size : OutputSizes]

Init ==
    /\ \/ call \in VideoCalls
       \/ call \in FeatCalls
    /\ ret = NewFrame

Video ==
    /\ call.fn = "get_extractor_video"
    /\ ret.status = "running"
    /\ ret' = get_extractor_video(call)
    /\ UNCHANGED call

Feat ==
    /\ call.fn = "get_extractor_feat"
    /\ ret.status = "running"
    /\ ret' = get_extractor_feat(call)
    /\ UNCHANGED call

Next == Video \/ Feat

Spec == Init /\ [][Next]_vars

---------------------------------------------------------------------------
(* Properties.                                                             *)

VideoDone == call.fn = "get_extractor_video" /\ ret.status # "running"

FeatDone == call.fn = "get_extractor_feat" /\ ret.status # "running"

ValidAttention == call.attention = "None" \/ InList(call.attention, attention_list)

IsTA3NName == Contains("TA3N", call.model_name)

ActiveStreams ==
    (IF call.modality.rgb THEN 1 ELSE 0) + (IF call.modality.flow THEN 1 ELSE 0)
    + (IF call.modality.audio THEN 1 ELSE 0)

AttentionError ==
    [type |-> "ValueError", msg |-> "Wrong MODEL.ATTENTION. Current: " \o call.attention]

ModelNameError ==
    [type |-> "ValueError", msg |-> "Wrong MODEL.METHOD. Current:" \o call.model_name]

\* The constructor that belongs to a model name and to attention presence.
ExpectedConstructor ==
    LET plain == call.attention = "None"
    IN  CASE call.model_name = "I3D"         -> IF plain THEN "i3d_joint" ELSE "se_i3d_joint"
          [] call.model_name = "R3D_18"      -> IF plain THEN "r3d" ELSE "se_r3d"
          [] call.model_name = "R2PLUS1D_18" -> IF plain THEN "r2plus1d" ELSE "se_r2plus1d"
          [] call.model_name = "MC3_18"      -> IF plain THEN "mc3" ELSE "se_mc3"
          [] OTHER                           -> "<none>"

\* C1: get_extractor_video with a model name containing "TA3N" and a valid
\* attention returns the network built by ta3n_joint, domain_feature_dim =
\* 1024 and class_feature_dim = 1024 times the number of active streams.
C1_TA3NImageReturns ==
    (VideoDone /\ IsTA3NName /\ ValidAttention)
        => /\ ret.status = "returned"
           /\ Len(ret.calls) = 1
           /\ ret.calls[1].fn = "ta3n_joint"
           /\ ret.result.feature_network = ret.calls[1].out
           /\ ret.result.domain_feature_dim = PyInt(1024)
           /\ ret.result.class_feature_dim = PyInt(1024 * ActiveStreams)

\* C2: get_extractor_feat with a model name other than "TA3N" completes
\* without raising and returns its result.
C2_FeatOtherNameReturns ==
    (FeatDone /\ call.model_name # "TA3N") => ret.status = "returned"

\* C3: an attention string that is neither "None" nor one of the seven
\* names makes get_extractor_video raise ValueError carrying that string,
\* whatever the model name is.
C3_InvalidAttentionRaises ==
    (VideoDone /\ ~ValidAttention)
        => ret.status = "raised" /\ ret.exc = AttentionError

C3_Witness ==
    /\ VideoDone /\ call.attention = "InvalidName" /\ call.model_name = "NotAModel"
    /\ ret.exc = AttentionError

\* C4: with a valid attention, get_extractor_video raises ValueError
\* carrying the model name exactly when the name is outside model_list and
\* is not a TA3N name; every name of model_list returns.
C4_ModelNameErrorIff ==
    (VideoDone /\ ValidAttention)
        => /\ (ret.status = "raised" /\ ret.exc = ModelNameError)
                <=> (~InList(call.model_name, model_list) /\ ~IsTA3NName)
           /\ InList(call.model_name, model_list) => ret.status = "returned"

\* C5: for "I3D" with a valid attention the returned dimensions are the
\* integers 2048 and 1024 when rgb and flow are both active and 1024 and
\* 1024 otherwise; the constructor receives "rgb_imagenet" exactly when rgb
\* is active and "flow_imagenet" exactly when flow is active, None otherwise.
C5_I3DDimensions ==
    (VideoDone /\ call.model_name = "I3D" /\ ValidAttention)
        => /\ ret.status = "returned"
           /\ ret.result.class_feature_dim =
                  IF call.modality.rgb /\ call.modality.flow THEN PyInt(2048) ELSE PyInt(1024)
           /\ ret.result.domain_feature_dim = PyInt(1024)
           /\ Len(ret.calls) = 1
           /\ ret.calls[1].kwargs["rgb_pt"] =
                  IF call.modality.rgb THEN PyStr("rgb_imagenet") ELSE PyNone
           /\ ret.calls[1].kwargs["flow_pt"] =
                  IF call.modality.flow THEN PyStr("flow_imagenet") ELSE PyNone

C5_Witness ==
    /\ VideoDone /\ call.model_name = "I3D" /\ call.attention = "SELayerC"
    /\ call.modality.rgb /\ call.modality.flow
    /\ ret.status = "returned"
    /\ ret.result.class_feature_dim = PyInt(2048)

\* C6: for "R3D_18", "R2PLUS1D_18" and "MC3_18" with a valid attention the
\* returned dimensions are the integers 1024 and 512 when rgb and flow are
\* both active and 512 and 512 otherwise, whatever the attention is.
C6_Res3DDimensions ==
    (VideoDone /\ call.model_name \in {"R3D_18", "R2PLUS1D_18", "MC3_18"} /\ ValidAttention)
        => /\ ret.status = "returned"
           /\ ret.result.class_feature_dim =
                  IF call.modality.rgb /\ call.modality.flow THEN PyInt(1024) ELSE PyInt(512)
           /\ ret.result.domain_feature_dim = PyInt(512)

C6_Witness ==
    /\ VideoDone /\ call.model_name = "R2PLUS1D_18" /\ call.attention = "SELayerMAC"
    /\ call.modality.rgb /\ call.modality.flow
    /\ ret.status = "returned"
    /\ ret.result.class_feature_dim = PyInt(1024)
    /\ ret.result.domain_feature_dim = PyInt(512)

\* C7: get_extractor_feat with "TA3N" returns class_feature_dim =
\* domain_feature_dim = output_size for every combination of modality flags.
C7_FeatDimsAreOutputSize ==
    (FeatDone /\ call.model_name = "TA3N")
        => /\ ret.status = "returned"
           /\ ret.result.domain_feature_dim = call.output_size
           /\ ret.result.class_feature_dim = call.output_size

C7_Witness ==
    /\ FeatDone /\ call.model_name = "TA3N"
    /\ call.modality.rgb /\ call.modality.flow /\ call.modality.audio
    /\ call.output_size = PyInt(256)
    /\ ret.status = "returned"
    /\ ret.result.class_feature_dim = PyInt(256)

\* C8: every return of get_extractor_video for a name that is not a TA3N
\* name yields a network whose "audio" entry is None, whatever the
\* constructor put there, with the constructor's "rgb" and "flow" entries.
C8_AudioIsNone ==
    (VideoDone /\ ret.status = "returned" /\ ~IsTA3NName)
        => /\ ret.result.feature_network.audio = PyNone
           /\ Len(ret.calls) = 1
           /\ ret.result.feature_network.rgb = ret.calls[1].out.rgb
           /\ ret.result.feature_network.flow = ret.calls[1].out.flow

C8_Witness ==
    /\ VideoDone /\ ret.status = "returned" /\ call.model_name = "MC3_18"
    /\ call.modality.rgb
    /\ ret.calls[1].out.audio = Module("unexpected.audio")
    /\ ret.result.feature_network.audio = PyNone
    /\ ret.result.feature_network.rgb = Module("mc3.rgb")

\* C9: a successful get_extractor_video for a name of model_list invokes
\* exactly one constructor, the one of (model name, attention presence),
\* and an attention variant receives the attention string unchanged.
C9_OneMatchingConstructor ==
    (VideoDone /\ ret.status = "returned" /\ InList(call.model_name, model_list))
        => /\ Len(ret.calls) = 1
           /\ ret.calls[1].fn = ExpectedConstructor
           /\ ret.calls[1].kwargs["attention"] =
                  IF call.attention = "None" THEN Absent ELSE PyStr(call.attention)

C9_Witness ==
    /\ VideoDone /\ ret.status = "returned"
    /\ call.model_name = "I3D" /\ call.attention = "SELayerTC"
    /\ ret.calls[1].fn = "se_i3d_joint"
    /\ ret.calls[1].kwargs["attention"] = PyStr("SELayerTC")

\* C10: when get_extractor_video fails on an unrecognized attention or an
\* unrecognized model name, no constructor has been invoked and no network
\* or dimension is returned.
C10_ValidationBeforeConstruction ==
    (VideoDone /\ ret.status = "raised" /\ ret.exc \in {AttentionError, ModelNameError})
        => /\ ret.calls = <<>>
           /\ ret.feature_network = NoNetwork
           /\ ret.result = NoResult

C10_Witness ==
    /\ VideoDone /\ ret.status = "raised"
    /\ call.model_name = "I3D" /\ call.attention = "InvalidName"
    /\ ret.exc = AttentionError
    /\ ret.calls = <<>>

====
